---------------------------- MODULE Spec2Model ----------------------------
(***************************************************************************)
(* BLEOBDClient (src/unnamed/part_000, src/lib/OBDClient_Core/             *)
(* BLEOBDClient.h): the connection state machine, the command queue, the   *)
(* response framer and the PID parsers of the ESP32 BLE OBD2 client.       *)
(*                                                                         *)
(* Two tasks run the code.  The loop task calls begin() once and loop()    *)
(* for ever; the BLE task runs the callbacks (bleNotifyCallback,           *)
(* OBDClientCallbacks::onDisconnect, OBDScanCallbacks::onResult).  Every   *)
(* statement of both is one step of a step function over the whole state.  *)
(* Spec runs the callbacks to completion and only while the loop task      *)
(* is inside delay() or a blocking BLE call (the cooperative reading of    *)
(* section 5 of the specification); SpecRace interleaves the two tasks     *)
(* statement by statement.                                                 *)
(*                                                                         *)
(* Time.  The code reads millis() and only ever uses a time stamp t as     *)
(* millis() - t (unsigned, so wrap-around safe).  The model therefore      *)
(* keeps, for every stamp, the elapsed time millis() - t in milliseconds,  *)
(* saturating at a cap above every constant the code compares it with;     *)
(* "t = millis()" is "elapsed := 0".  A stamp that the code sets to the    *)
(* literal 0 ("unset") is NoStamp.                                         *)
(*                                                                         *)
(* Text.  An Arduino String is a sequence of one-character strings.        *)
(***************************************************************************)
EXTENDS Integers, Sequences, FiniteSets, TLC

(***************************************************************************)
(* Program constants.                                                      *)
(***************************************************************************)
DefaultTimeout == 2000
ThrottleMs == 100
ReconnectCooldown == 10000
LoopDelay == 50
ScanDuration == 10000
NoStamp == -1

DISCONNECTED == "DISCONNECTED"
SCANNING == "SCANNING"
CONNECTING == "CONNECTING"
INITIALIZING == "INITIALIZING"
CONNECTED == "CONNECTED"
ERROR_STATE == "ERROR_STATE"

ConnectionState ==
  {DISCONNECTED, SCANNING, CONNECTING, INITIALIZING, CONNECTED, ERROR_STATE}

(***************************************************************************)
(* Bounds of the model.                                                    *)
(***************************************************************************)
MaxAge == 10050
Margin == 200
MaxUptime == 3300
ShortTimeout == 150
MaxCommands == 9
MaxRaceCommands == 2
MaxFaults == 1

(***************************************************************************)
(* Arduino String operations on sequences of characters.                   *)
(***************************************************************************)
Min(a, b) == IF a < b THEN a ELSE b

IsSpace(ch) == ch \in {" ", "\t", "\n", "\r", "\f"}

RECURSIVE indexOf(_, _, _)
indexOf(s, ch, from) ==
  IF from >= Len(s) THEN -1
  ELSE IF s[from + 1] = ch THEN from
  ELSE indexOf(s, ch, from + 1)

substring(s, left, right) ==
  LET l == Min(left, right)
      r0 == IF left > right THEN left ELSE right
      r == Min(r0, Len(s))
  IN  IF l >= Len(s) THEN << >> ELSE SubSeq(s, l + 1, r)

startsWith(s, prefix) ==
  /\ Len(prefix) <= Len(s)
  /\ SubSeq(s, 1, Len(prefix)) = prefix

RECURSIVE removeSpaces(_)
removeSpaces(s) ==
  IF s = << >> THEN << >>
  ELSE IF Head(s) = " " THEN removeSpaces(Tail(s))
  ELSE <<Head(s)>> \o removeSpaces(Tail(s))

RECURSIVE trimLeft(_)
trimLeft(s) ==
  IF s # << >> /\ IsSpace(Head(s)) THEN trimLeft(Tail(s)) ELSE s

RECURSIVE trimRight(_)
trimRight(s) ==
  IF s # << >> /\ IsSpace(s[Len(s)])
  THEN trimRight(SubSeq(s, 1, Len(s) - 1))
  ELSE s

(* trim() removing the trailing white space only *)
trimTrailing(s) == trimRight(s)

trim(s) == trimRight(trimLeft(s))

(***************************************************************************)
(* strtol(str, NULL, 16): leading white space, an optional sign, an        *)
(* optional 0x, then the longest run of hexadecimal digits; 0 when there   *)
(* is none.                                                                *)
(***************************************************************************)
HexDigits ==
  <<"0", "1", "2", "3", "4", "5", "6", "7", "8", "9",
    "A", "B", "C", "D", "E", "F">>

LowerHexDigits == <<"a", "b", "c", "d", "e", "f">>

IsHexDigit(ch) ==
  \/ \E i \in 1..16 : HexDigits[i] = ch
  \/ \E i \in 1..6 : LowerHexDigits[i] = ch

HexValue(ch) ==
  IF \E i \in 1..16 : HexDigits[i] = ch
  THEN (CHOOSE i \in 1..16 : HexDigits[i] = ch) - 1
  ELSE (CHOOSE i \in 1..6 : LowerHexDigits[i] = ch) + 9

RECURSIVE hexRun(_, _)
hexRun(s, acc) ==
  IF s # << >> /\ IsHexDigit(Head(s))
  THEN hexRun(Tail(s), acc * 16 + HexValue(Head(s)))
  ELSE acc

strtol16(str) ==
  LET s1 == trimLeft(str)
      neg == s1 # << >> /\ Head(s1) = "-"
      s2 == IF s1 # << >> /\ Head(s1) \in {"-", "+"} THEN Tail(s1) ELSE s1
      s3 == IF /\ Len(s2) >= 3
               /\ s2[1] = "0"
               /\ s2[2] \in {"x", "X"}
               /\ IsHexDigit(s2[3])
            THEN SubSeq(s2, 3, Len(s2))
            ELSE s2
      v == hexRun(s3, 0)
  IN  IF neg THEN 0 - v ELSE v

(***************************************************************************)
(* The parsers.  A float is the exact fraction [n, d]; a parser returns    *)
(* [ok, value], where value is what it wrote to *value (meaningful only    *)
(* when it wrote, which every parser does exactly when it returns true).   *)
(***************************************************************************)
Float(n, d) == IF n = 0 THEN [n |-> 0, d |-> 1] ELSE [n |-> n, d |-> d]

NoValue == Float(0, 1)

parseRPM(response) ==
  IF Len(response) < 8 THEN [ok |-> FALSE, value |-> NoValue]
  ELSE LET r == removeSpaces(response)
       IN  IF ~startsWith(r, <<"4", "1", "0", "C">>)
           THEN [ok |-> FALSE, value |-> NoValue]
           ELSE LET a == strtol16(substring(r, 4, 6))
                    b == strtol16(substring(r, 6, 8))
                IN  [ok |-> TRUE, value |-> Float((a * 256) + b, 4)]

parseSpeed(response) ==
  IF Len(response) < 6 THEN [ok |-> FALSE, value |-> NoValue]
  ELSE LET r == removeSpaces(response)
       IN  IF ~startsWith(r, <<"4", "1", "0", "D">>)
           THEN [ok |-> FALSE, value |-> NoValue]
           ELSE [ok |-> TRUE,
                 value |-> Float(strtol16(substring(r, 4, 6)), 1)]

(* parseTemperature without the offset of line 486 *)
parseTemperatureNoOffset(response) ==
  IF Len(response) < 6 THEN [ok |-> FALSE, value |-> NoValue]
  ELSE LET r == removeSpaces(response)
           pid == substring(r, 2, 4)
       IN  IF pid # <<"0", "5">> /\ pid # <<"5", "C">>
           THEN [ok |-> FALSE, value |-> NoValue]
           ELSE [ok |-> TRUE,
                 value |-> Float(strtol16(substring(r, 4, 6)), 1)]

parseTemperature(response) ==
  IF Len(response) < 6 THEN [ok |-> FALSE, value |-> NoValue]
  ELSE LET r == removeSpaces(response)
           pid == substring(r, 2, 4)
       IN  IF pid # <<"0", "5">> /\ pid # <<"5", "C">>
           THEN [ok |-> FALSE, value |-> NoValue]
           ELSE [ok |-> TRUE,
                 value |-> Float(strtol16(substring(r, 4, 6)) - 40, 1)]

parsePercentage(response) ==
  IF Len(response) < 6 THEN [ok |-> FALSE, value |-> NoValue]
  ELSE LET r == removeSpaces(response)
       IN  [ok |-> TRUE,
            value |-> Float(strtol16(substring(r, 4, 6)) * 100, 255)]

parseAirflow(response) ==
  IF Len(response) < 8 THEN [ok |-> FALSE, value |-> NoValue]
  ELSE LET r == removeSpaces(response)
       IN  IF ~startsWith(r, <<"4", "1", "1", "0">>)
           THEN [ok |-> FALSE, value |-> NoValue]
           ELSE LET a == strtol16(substring(r, 4, 6))
                    b == strtol16(substring(r, 6, 8))
                IN  [ok |-> TRUE, value |-> Float((a * 256) + b, 100)]

parseFunction(parser, response) ==
  CASE parser = "parseRPM" -> parseRPM(response)
    [] parser = "parseSpeed" -> parseSpeed(response)
    [] parser = "parseTemperature" -> parseTemperature(response)
    [] parser = "parsePercentage" -> parsePercentage(response)
    [] parser = "parseAirflow" -> parseAirflow(response)

(***************************************************************************)
(* The state.  client is the BLEOBDClient object, loopTask and bleTask     *)
(* are the two tasks' positions and locals, env is the transport: the      *)
(* link, the running scan, the adapter's pending output, and the history   *)
(* the claims are stated over.  bench records one call of a parser, for    *)
(* the specification that exercises the parsers on arbitrary replies, and  *)
(* the waiting times before the automatic reconnect attempts.              *)
(***************************************************************************)
VARIABLES client, loopTask, bleTask, env, bench

vars == <<client, loopTask, bleTask, env, bench>>

World == [c |-> client, lp |-> loopTask, bt |-> bleTask, env |-> env]

(* A scan that begins in the Disconnected or the Error state, the state    *)
(* begin() found set aside, is an automatic reconnect attempt; the time    *)
(* the client spent in that state is the waiting time before it.           *)
Reattempt(w) ==
  /\ w.c.connectionState = SCANNING
  /\ client.connectionState # SCANNING
  /\ w.c.previous.state \in {DISCONNECTED, ERROR_STATE}

(* bench.waits: the waiting times before the latest two automatic          *)
(* reconnect attempts since the last successful connect.                   *)
Waited(w) ==
  LET since == IF w.env.session # env.session THEN << >> ELSE bench.waits
      all == IF Reattempt(w) THEN Append(since, w.c.previous.age) ELSE since
  IN  IF Len(all) > 2 THEN Tail(all) ELSE all

Commit(w) ==
  /\ client' = w.c
  /\ loopTask' = w.lp
  /\ bleTask' = w.bt
  /\ env' = w.env
  /\ bench' = [bench EXCEPT !.waits = Waited(w)]

(***************************************************************************)
(* The fixed PID set of setupOBDCommands, in order: command text, target   *)
(* field of obdData, parser.                                               *)
(***************************************************************************)
OBDCommands ==
  << [command |-> "010C", targetVariable |-> "rpm",
      parseFunction |-> "parseRPM"],
     [command |-> "010D", targetVariable |-> "speed",
      parseFunction |-> "parseSpeed"],
     [command |-> "0105", targetVariable |-> "coolantTemp",
      parseFunction |-> "parseTemperature"],
     [command |-> "015C", targetVariable |-> "oilTemp",
      parseFunction |-> "parseTemperature"],
     [command |-> "012F", targetVariable |-> "fuelLevel",
      parseFunction |-> "parsePercentage"],
     [command |-> "0111", targetVariable |-> "throttlePos",
      parseFunction |-> "parsePercentage"],
     [command |-> "0104", targetVariable |-> "engineLoad",
      parseFunction |-> "parsePercentage"],
     [command |-> "0110", targetVariable |-> "airflowRate",
      parseFunction |-> "parseAirflow"] >>

TelemetryFields ==
  {"rpm", "speed", "coolantTemp", "oilTemp", "fuelLevel", "throttlePos",
   "engineLoad", "airflowRate"}

TIMEOUT == <<"T", "I", "M", "E", "O", "U", "T">>

NO_DATA == <<"N", "O", " ", "D", "A", "T", "A">>

(***************************************************************************)
(* The adapter.  It answers a command with a text that ends with the       *)
(* prompt ">"; the well-formed answer to each PID request echoes the PID.  *)
(***************************************************************************)
GoodReply(command) ==
  CASE command = "010C" -> <<"4", "1", "0", "C", "1", "A", "F", "8">>
    [] command = "010D" -> <<"4", "1", "0", "D", "5", "0">>
    [] command = "0105" -> <<"4", "1", "0", "5", "6", "4">>
    [] command = "015C" -> <<"4", "1", "5", "C", "6", "E">>
    [] command = "012F" -> <<"4", "1", "2", "F", "7", "F">>
    [] command = "0111" -> <<"4", "1", "1", "1", "3", "3">>
    [] command = "0104" -> <<"4", "1", "0", "4", "8", "0">>
    [] command = "0110" -> <<"4", "1", "1", "0", "0", "1", "F", "4">>
    [] OTHER -> <<"O", "K">>

Framed(text) == text \o <<"\r", ">">>

(***************************************************************************)
(* Elapsed-time bookkeeping: d milliseconds pass.                          *)
(***************************************************************************)
Older(age, d, cap) ==
  IF age = NoStamp THEN NoStamp ELSE Min(age + d, cap)

(* lastStateChange is read at line 78 only, in DISCONNECTED or ERROR_STATE, *)
(* against the cooldown; the other stamps are compared with the command    *)
(* timeout at most.                                                        *)
MaxLag(c) == c.defaultTimeout + Margin

Elapse(w, d) ==
  LET lag == MaxLag(w.c)
  IN
  [w EXCEPT
     !.c.lastStateChange =
        Older(@, d, IF w.c.connectionState \in {DISCONNECTED, ERROR_STATE}
                    THEN MaxAge ELSE lag),
     !.c.lastCommandTime = Older(@, d, lag),
     !.c.lastCommandCheck = Older(@, d, lag),
     !.c.scanStartTime = Older(@, d, lag),
     !.c.stats.lastConnectionTime = Older(@, d, MaxUptime),
     !.c.obdData.lastUpdate = Older(@, d, lag),
     !.c.commandQueue =
        [i \in DOMAIN @ |-> [@[i] EXCEPT !.sentTime = Older(@, d, lag)]],
     !.env.millis = Older(@, d, lag)]

(* millis() - stamp, for a stamp that may be the literal 0 *)
Since(w, stamp) == IF stamp = NoStamp THEN w.env.millis ELSE stamp

(***************************************************************************)
(* Init: the object as constructed (the member initialisers of             *)
(* BLEOBDClient.h), no link, nothing scanning, nothing on the wire.        *)
(***************************************************************************)
InitClient ==
  [ deviceConnected |-> FALSE,
    deviceFound |-> FALSE,
    doConnect |-> FALSE,
    doScan |-> FALSE,
    connectionState |-> DISCONNECTED,
    targetDevice |-> "nullptr",
    pTxCharacteristic |-> FALSE,
    obdData |-> [rpm |-> NoValue, speed |-> NoValue, coolantTemp |-> NoValue,
                 oilTemp |-> NoValue, fuelLevel |-> NoValue,
                 throttlePos |-> NoValue, engineLoad |-> NoValue,
                 airflowRate |-> NoValue, lastUpdate |-> 0],
    stats |-> [totalCommands |-> 0, successfulCommands |-> 0,
               failedCommands |-> 0, averageResponseTime |-> 0,
               connectionUptime |-> 0, lastConnectionTime |-> 0,
               reconnectAttempts |-> 0],
    commandQueue |-> << >>,
    currentCommandIndex |-> 0,
    lastCommandTime |-> 0,
    waitingForResponse |-> FALSE,
    incomingData |-> << >>,
    deviceName |-> "OBD2_Simulator_BLE",
    autoReconnect |-> TRUE,
    defaultTimeout |-> DefaultTimeout,
    lastStateChange |-> 0,
    previous |-> [state |-> "none", age |-> 0],
    scanStartTime |-> 0,
    lastCommandCheck |-> 0 ]

InitLoopTask == [pc |-> "new", cmd |-> 0, ret |-> "none", n |-> 0]

InitBleTask ==
  [pc |-> "none", data |-> << >>, seq |-> 0, session |-> 0,
   expired |-> FALSE, completeResponse |-> << >>, cmd |-> 0, dev |-> "none"]

InitEnv ==
  [ link |-> "down",
    scanActive |-> FALSE,
    wire |-> << >>,
    millis |-> 0,
    txCount |-> 0,
    lastWrite |-> 0,
    session |-> 0,
    maxCommands |-> MaxCommands,
    faults |-> 0,
    strayWrite |-> FALSE,
    crashed |-> FALSE ]

(* no parser has been called *)
InitBench ==
  [command |-> "none", header |-> << >>, data |-> << >>, spaced |-> FALSE,
   response |-> << >>, stream |-> << >>, called |-> FALSE,
   ok |-> FALSE, value |-> NoValue, waits |-> << >>]

Init ==
  /\ client = InitClient
  /\ loopTask = InitLoopTask
  /\ bleTask = InitBleTask
  /\ env = InitEnv
  /\ bench = InitBench

(* lines 370-380 without the test of line 371 *)
updateConnectionStateUnguarded(c, newState) ==
  [c EXCEPT !.connectionState = newState,
            !.lastStateChange = 0,
            !.previous = [state |-> IF @.state = "none" THEN "boot"
                                    ELSE c.connectionState,
                          age |-> c.lastStateChange]]

(***************************************************************************)
(* Statements shared by several handlers.                                  *)
(***************************************************************************)
(* updateConnectionState, lines 370-380.  previous is history: the state   *)
(* that was left by the last change ("boot" for the state the object was   *)
(* constructed in) and how long it had lasted.                             *)
updateConnectionState(c, newState) ==
  IF newState # c.connectionState
  THEN [c EXCEPT !.connectionState = newState,
                 !.lastStateChange = 0,
                 !.previous = [state |-> IF @.state = "none" THEN "boot"
                                         ELSE c.connectionState,
                               age |-> c.lastStateChange]]
  ELSE c

(* getSuccessRate without the test of line 440 *)
getSuccessRateUnguarded(c) ==
  [n |-> c.stats.successfulCommands * 100, d |-> c.stats.totalCommands]

(* getSuccessRate, lines 439-442: the quotient as the fraction n / d, so   *)
(* that d = 0 is the division by zero                                      *)
getSuccessRate(c) ==
  IF c.stats.totalCommands = 0 THEN [n |-> 0, d |-> 1]
  ELSE [n |-> c.stats.successfulCommands * 100, d |-> c.stats.totalCommands]

getUptime(c) ==
  IF ~c.deviceConnected THEN 0 ELSE c.stats.lastConnectionTime

(* lines 303-312 without the test of line 304 *)
sendCommandUnguarded(w, command) ==
  LET seq == w.env.txCount + 1
      w1 == [w EXCEPT !.env.txCount = seq]
      w2 == [w1 EXCEPT !.env.lastWrite = seq]
  IN  IF w.env.link = "up"
      THEN [w2 EXCEPT !.env.wire =
              Append(@, [seq |-> seq, session |-> w.env.session,
                         late |-> FALSE, expired |-> FALSE,
                         command |-> command,
                         data |-> Framed(GoodReply(command))])]
      ELSE w2

(* sendCommand: the write reaches the adapter only over a live link; the   *)
(* adapter then owes the answer.  lastWrite is history: the number of the  *)
(* latest call that did write (line 306).                                  *)
sendCommand(w, command) ==
  LET seq == w.env.txCount + 1
      w1 == [w EXCEPT !.env.txCount = seq]
      w2 == [w1 EXCEPT !.env.lastWrite = seq]
  IN  IF w.c.deviceConnected /\ w.c.pTxCharacteristic
      THEN IF w.env.link = "up"
           THEN [w2 EXCEPT !.env.wire =
                   Append(@, [seq |-> seq, session |-> w.env.session,
                              late |-> FALSE, expired |-> FALSE,
                              command |-> command,
                              data |-> Framed(GoodReply(command))])]
           ELSE w2
      ELSE w1

Goto(w, label) == [w EXCEPT !.lp.pc = label]

(***************************************************************************)
(* The loop task, statement by statement.  A label is the source line of   *)
(* the statement about to run.  The labels of Waits are delay() and the    *)
(* blocking BLE calls: there the task waits, time passes, and WaitOver     *)
(* says what it continues with.                                            *)
(***************************************************************************)
Waits ==
  {"new", "scan", "connect", "D190", "D192", "D194", "D196", "D198", "D200",
   "D110"}

(* lines 191-199 with ATL0 sent before ATE0 *)
InitCommandsLinefeedsFirst ==
  [S191 |-> "ATZ", S193 |-> "ATL0", S195 |-> "ATE0", S197 |-> "ATS0",
   S199 |-> "ATSP0"]

InitCommands ==
  [S191 |-> "ATZ", S193 |-> "ATE0", S195 |-> "ATL0", S197 |-> "ATS0",
   S199 |-> "ATSP0"]

AfterSend ==
  [S191 |-> "D192", S193 |-> "D194", S195 |-> "D196", S197 |-> "D198",
   S199 |-> "D200"]

InitDelay ==
  [D190 |-> 500, D192 |-> 1500, D194 |-> 200, D196 |-> 200, D198 |-> 200,
   D200 |-> 500]

AfterDelay ==
  [D190 |-> "S191", D192 |-> "S193", D194 |-> "S195", D196 |-> "S197",
   D198 |-> "S199", D200 |-> "L203"]

(* startScan up to the blocking pBLEScan->start(10, false) *)
startScan(w, ret) ==
  [w EXCEPT !.c = [updateConnectionState(w.c, SCANNING)
                     EXCEPT !.scanStartTime = 0],
            !.env.scanActive = TRUE,
            !.lp.ret = ret,
            !.lp.pc = "scan"]

(* addCommand: push_back of a fresh slot.  session, txSeq, rxSeq and      *)
(* rxSession are history: the session that loaded the slot, the number of  *)
(* the slot's latest transmission, and the transmission and the session    *)
(* that the stored rawResponse answers (0: none).                          *)
addCommand(w, cmd) ==
  [w EXCEPT !.c.commandQueue =
     Append(@, [command |-> cmd.command,
                targetVariable |-> cmd.targetVariable,
                parseFunction |-> cmd.parseFunction,
                timeout |-> w.c.defaultTimeout,
                completed |-> FALSE,
                rawResponse |-> << >>,
                sentTime |-> NoStamp,
                session |-> w.env.session,
                txSeq |-> 0,
                rxSeq |-> 0,
                rxSession |-> 0,
                rxExpired |-> FALSE])]

InQueue(c, i) == i >= 0 /\ i < Len(c.commandQueue)

(* resetCommandQueue, lines 363-368 *)
resetCommandQueue(w) ==
  LET pc == w.lp.pc
  IN
  CASE pc = "R364" -> [w EXCEPT !.c.commandQueue = << >>, !.lp.pc = "R365"]
    [] pc = "R365" -> [w EXCEPT !.c.currentCommandIndex = 0, !.lp.pc = "R366"]
    [] pc = "R366" ->
         [w EXCEPT !.c.waitingForResponse = FALSE, !.lp.pc = "R367"]
    [] pc = "R367" -> [w EXCEPT !.c.incomingData = << >>, !.lp.pc = "D190"]

(* initializeOBD, lines 182-204 (its delays are the waits D190..D200) *)
initializeOBD(w) ==
  LET pc == w.lp.pc
  IN
  CASE pc = "L184" ->
         [w EXCEPT !.c = updateConnectionState(w.c, INITIALIZING),
                   !.lp.pc = "R364"]
    [] pc \in DOMAIN InitCommands ->
         Goto(sendCommand(w, InitCommands[pc]), AfterSend[pc])
    [] pc = "L203" ->
         [w EXCEPT !.c = updateConnectionState(w.c, CONNECTED),
                   !.lp.n = 1, !.lp.pc = "A210"]

(* setupOBDCommands, lines 206-220: one addCommand per step *)
setupOBDCommands(w) ==
  [addCommand(w, OBDCommands[w.lp.n]) EXCEPT
     !.lp.n = IF w.lp.n = Len(OBDCommands) THEN 0 ELSE @ + 1,
     !.lp.pc = IF w.lp.n = Len(OBDCommands) THEN "L67" ELSE "A210"]

(* lines 245-274 with the target field written whatever the parser       *)
(* returns                                                                 *)
settleCommandAlwaysWrites(w, i) ==
  LET cmd == w.c.commandQueue[i + 1]
      parsed == parseFunction(cmd.parseFunction, cmd.rawResponse)
      responseTime == Since(w, cmd.sentTime)
  IN  IF Len(cmd.rawResponse) > 0 /\ ~startsWith(cmd.rawResponse, NO_DATA)
      THEN IF parsed.ok
           THEN [w EXCEPT
                   !.c.obdData[cmd.targetVariable] = parsed.value,
                   !.c.stats.successfulCommands = @ + 1,
                   !.c.obdData.lastUpdate = 0,
                   !.c.stats.averageResponseTime =
                      IF @ = 0 THEN responseTime
                      ELSE (@ + responseTime) \div 2]
           ELSE [w EXCEPT !.c.obdData[cmd.targetVariable] = parsed.value,
                          !.c.stats.failedCommands = @ + 1]
      ELSE [w EXCEPT !.c.stats.failedCommands = @ + 1]

(* processCommandQueue, lines 245-274: the completed slot i is settled *)
settleCommand(w, i) ==
  LET cmd == w.c.commandQueue[i + 1]
      parsed == parseFunction(cmd.parseFunction, cmd.rawResponse)
      responseTime == Since(w, cmd.sentTime)
  IN  IF Len(cmd.rawResponse) > 0 /\ ~startsWith(cmd.rawResponse, NO_DATA)
      THEN IF parsed.ok
           THEN [w EXCEPT
                   !.c.obdData[cmd.targetVariable] = parsed.value,
                   !.c.stats.successfulCommands = @ + 1,
                   !.c.obdData.lastUpdate = 0,
                   !.c.stats.averageResponseTime =
                      IF @ = 0 THEN responseTime
                      ELSE (@ + responseTime) \div 2]
           ELSE [w EXCEPT !.c.stats.failedCommands = @ + 1]
      ELSE [w EXCEPT !.c.stats.failedCommands = @ + 1]

(* lines 277-280 without the wrap to 0 *)
advanceIndexNoWrap(c) == [c EXCEPT !.currentCommandIndex = @ + 1]

(* lines 277-280 *)
advanceIndex(c) ==
  LET next == c.currentCommandIndex + 1
  IN  [c EXCEPT !.currentCommandIndex =
         IF next >= Len(c.commandQueue) THEN 0 ELSE next]

(* lines 283-285 without "cmd.sentTime = 0" *)
clearSlotKeepsStamp(c, i) ==
  [c EXCEPT !.commandQueue[i + 1] =
     [@ EXCEPT !.completed = FALSE, !.rawResponse = << >>,
               !.rxSeq = 0, !.rxSession = 0, !.rxExpired = FALSE]]

(* lines 283-285 *)
clearSlot(c, i) ==
  [c EXCEPT !.commandQueue[i + 1] =
     [@ EXCEPT !.completed = FALSE, !.rawResponse = << >>,
               !.sentTime = NoStamp, !.rxSeq = 0, !.rxSession = 0, !.rxExpired = FALSE]]

(* processCommandQueue, lines 233-301.  The guard on totalCommands is the  *)
(* model's bound on the number of commands issued.                         *)
processCommandQueue(w) ==
  LET c == w.c
      pc == w.lp.pc
  IN
  CASE pc = "P236" ->
         IF c.lastCommandCheck < ThrottleMs
         THEN Goto(w, "L90")
         ELSE [w EXCEPT !.c.lastCommandCheck = 0,
                        !.lp.pc = IF c.commandQueue = << >>
                                  THEN "L90" ELSE "P242"]
    [] pc = "P242" ->
         IF /\ InQueue(c, c.currentCommandIndex)
            /\ c.commandQueue[c.currentCommandIndex + 1].completed
         THEN [w EXCEPT !.lp.cmd = c.currentCommandIndex, !.lp.pc = "P245"]
         ELSE Goto(w, "P289")
    [] pc = "P245" -> Goto(settleCommand(w, w.lp.cmd), "P277")
    [] pc = "P277" -> [w EXCEPT !.c = advanceIndex(c), !.lp.pc = "P283"]
    [] pc = "P283" -> [w EXCEPT !.c = clearSlot(c, w.lp.cmd), !.lp.pc = "P289"]
    [] pc = "P289" ->
         IF /\ ~c.waitingForResponse
            /\ InQueue(c, c.currentCommandIndex)
            /\ c.stats.totalCommands < w.env.maxCommands
         THEN [w EXCEPT !.lp.cmd = c.currentCommandIndex, !.lp.pc = "P291"]
         ELSE Goto(w, "L90")
    [] pc = "P291" ->
         LET w1 == sendCommand(w, c.commandQueue[w.lp.cmd + 1].command)
         IN  [w1 EXCEPT !.c.commandQueue[w.lp.cmd + 1].txSeq = w1.env.txCount,
                        !.lp.pc = "P292"]
    [] pc = "P292" ->
         [w EXCEPT !.c.waitingForResponse = TRUE, !.lp.pc = "P293"]
    [] pc = "P293" -> [w EXCEPT !.c.lastCommandTime = 0, !.lp.pc = "P294"]
    [] pc = "P294" ->
         [w EXCEPT !.c.commandQueue[w.lp.cmd + 1].sentTime = 0,
                   !.lp.pc = "P295"]
    [] pc = "P295" ->
         [w EXCEPT !.c.stats.totalCommands = @ + 1, !.lp.pc = "L90"]

(* history: the answer to the command numbered seq, if the adapter still   *)
(* owes it, is from now on the answer to a command that has timed out      *)
Expire(wire, seq) ==
  [j \in DOMAIN wire |->
     IF wire[j].seq = seq THEN [wire[j] EXCEPT !.expired = TRUE] ELSE wire[j]]

(* handleTimeout, lines 352-361 *)
handleTimeout(w) ==
  LET c == w.c
      pc == w.lp.pc
  IN
  CASE pc = "H353" ->
         IF InQueue(c, c.currentCommandIndex)
         THEN [w EXCEPT !.lp.cmd = c.currentCommandIndex, !.lp.pc = "H356"]
         ELSE Goto(w, "D110")
    [] pc = "H356" ->
         [w EXCEPT !.c.stats.failedCommands = @ + 1, !.lp.pc = "H357"]
    [] pc = "H357" ->
         [w EXCEPT !.c.waitingForResponse = FALSE, !.lp.pc = "H358"]
    [] pc = "H358" ->
         [w EXCEPT !.c.commandQueue[w.lp.cmd + 1].completed = TRUE,
                   !.lp.pc = "H359"]
    [] pc = "H359" ->
         [w EXCEPT !.c.commandQueue[w.lp.cmd + 1] =
                      [@ EXCEPT !.rawResponse = TIMEOUT, !.rxSeq = 0,
                                !.rxSession = 0, !.rxExpired = FALSE],
                   !.env.wire = Expire(@, c.commandQueue[w.lp.cmd + 1].txSeq),
                   !.lp.pc = "D110"]

(* begin, lines 37-39, and the end of startScan, line 50 *)
begin(w) ==
  LET pc == w.lp.pc
  IN
  CASE pc = "B38" ->
         startScan([w EXCEPT !.c = updateConnectionState(w.c, SCANNING)],
                   "L55")
    [] pc = "S50" -> [w EXCEPT !.c.doScan = FALSE, !.lp.pc = w.lp.ret]

(* the timeout check that is never true *)
commandTimedOutNever(c) == FALSE

(* line 90 *)
commandTimedOut(c) ==
  c.waitingForResponse /\ c.lastCommandTime > c.defaultTimeout

(* loop, lines 53-111 *)
loop(w) ==
  LET c == w.c
      pc == w.lp.pc
  IN
  CASE pc = "L55" ->
         IF c.doConnect /\ c.deviceFound
         THEN [w EXCEPT !.c = updateConnectionState(c, CONNECTING),
                        !.lp.pc = "connect"]
         ELSE Goto(w, "L71")
    [] pc = "L59" ->
         [w EXCEPT !.c = updateConnectionState(c, CONNECTED),
                   !.lp.pc = "L184"]
    [] pc = "L64" ->
         [w EXCEPT !.c = [updateConnectionState(c, ERROR_STATE)
                            EXCEPT !.doScan = TRUE],
                   !.lp.pc = "L67"]
    [] pc = "L67" -> [w EXCEPT !.c.doConnect = FALSE, !.lp.pc = "L71"]
    [] pc = "L71" ->
         IF c.doScan /\ ~c.deviceConnected
         THEN startScan(w, "L76")
         ELSE Goto(w, "L76")
    [] pc = "L76" ->
         IF /\ ~c.deviceConnected
            /\ c.autoReconnect
            /\ c.connectionState \in {DISCONNECTED, ERROR_STATE}
            /\ c.lastStateChange > ReconnectCooldown
         THEN startScan([w EXCEPT !.c.stats.reconnectAttempts = @ + 1], "L85")
         ELSE Goto(w, "L85")
    [] pc = "L85" ->
         IF c.deviceConnected /\ c.connectionState = CONNECTED
         THEN Goto(w, "P236")
         ELSE Goto(w, "L90")
    [] pc = "L90" ->
         IF commandTimedOut(c)
         THEN Goto(w, "H353")
         ELSE Goto(w, "D110")

LoopStep(w) ==
  LET pc == w.lp.pc
  IN
  CASE pc \in {"B38", "S50"} -> begin(w)
    [] pc \in {"R364", "R365", "R366", "R367"} -> resetCommandQueue(w)
    [] pc \in {"L184", "L203"} \cup DOMAIN InitCommands -> initializeOBD(w)
    [] pc = "A210" -> setupOBDCommands(w)
    [] pc \in {"P236", "P242", "P245", "P277", "P283", "P289", "P291",
               "P292", "P293", "P294", "P295"} -> processCommandQueue(w)
    [] pc \in {"H353", "H356", "H357", "H358", "H359"} -> handleTimeout(w)
    [] OTHER -> loop(w)

RECURSIVE LoopRun(_)
LoopRun(w) ==
  IF w.lp.pc \in Waits THEN w
  ELSE CHOOSE r \in {LoopRun(v) : v \in {LoopStep(w)}} : TRUE

(***************************************************************************)
(* The BLE task, statement by statement.                                   *)
(*                                                                         *)
(* In processIncomingData cmd is a reference into commandQueue taken at    *)
(* line 335.  When the loop task has cleared the vector in between, the    *)
(* writes of lines 336-337 go through a dangling reference: undefined      *)
(* behaviour, of which the model keeps two outcomes (ub): the write is     *)
(* lost, or the String assignment corrupts the heap and the program        *)
(* stops.  env.strayWrite records that it happened.                        *)
(***************************************************************************)
(* line 334 without the test of waitingForResponse *)
replyExpectedAlways(c) == InQueue(c, c.currentCommandIndex)

(* line 334: waitingForResponse && currentCommandIndex < size *)
replyExpected(c) ==
  c.waitingForResponse /\ InQueue(c, c.currentCommandIndex)

(* line 348 removing the reply and its terminator only *)
clearBufferToPrompt(c) ==
  LET promptPos == indexOf(c.incomingData, ">", 0)
  IN  [c EXCEPT !.incomingData =
         substring(@, promptPos + 1, Len(c.incomingData))]

(* line 348: incomingData = "" *)
clearBuffer(c) == [c EXCEPT !.incomingData = << >>]

processIncomingData(w, ub) ==
  LET c == w.c
      pc == w.bt.pc
      promptPos == indexOf(c.incomingData, ">", 0)
      i == w.bt.cmd
  IN
  CASE pc = "N315" ->
         [w EXCEPT !.c.incomingData = @ \o w.bt.data, !.bt.pc = "N323"]
    [] pc = "N323" ->
         IF promptPos # -1
         THEN [w EXCEPT !.bt.completeResponse =
                           trim(substring(c.incomingData, 0, promptPos)),
                        !.bt.pc = "N334"]
         ELSE [w EXCEPT !.bt = InitBleTask]
    [] pc = "N334" ->
         IF replyExpected(c)
         THEN [w EXCEPT !.bt.cmd = c.currentCommandIndex, !.bt.pc = "N336"]
         ELSE [w EXCEPT !.bt.pc = "N348"]
    [] pc = "N336" ->
         IF InQueue(c, i)
         THEN [w EXCEPT !.c.commandQueue[i + 1] =
                           [@ EXCEPT !.rawResponse = w.bt.completeResponse,
                                     !.rxSeq = w.bt.seq,
                                     !.rxSession = w.bt.session,
                                     !.rxExpired = w.bt.expired],
                        !.bt.pc = "N337"]
         ELSE [w EXCEPT !.env.strayWrite = TRUE,
                        !.env.crashed = (ub = "crash"),
                        !.bt.pc = "N337"]
    [] pc = "N337" ->
         IF InQueue(c, i)
         THEN [w EXCEPT !.c.commandQueue[i + 1].completed = TRUE,
                        !.bt.pc = "N338"]
         ELSE [w EXCEPT !.env.strayWrite = TRUE, !.bt.pc = "N338"]
    [] pc = "N338" ->
         [w EXCEPT !.c.waitingForResponse = FALSE, !.bt.pc = "N348"]
    [] pc = "N348" -> [w EXCEPT !.c = clearBuffer(c), !.bt = InitBleTask]

(* OBDClientCallbacks::onDisconnect, lines 528-541 *)
onDisconnect(w) ==
  LET c == w.c
      pc == w.bt.pc
  IN
  CASE pc = "X529" -> [w EXCEPT !.c.deviceConnected = FALSE, !.bt.pc = "X530"]
    [] pc = "X530" ->
         [w EXCEPT !.c = updateConnectionState(c, DISCONNECTED),
                   !.bt.pc = "X532"]
    [] pc = "X532" ->
         [w EXCEPT !.c.stats.connectionUptime = @ + getUptime(c),
                   !.bt.pc = "X537"]
    [] pc = "X537" ->
         [w EXCEPT !.c.doScan = IF c.autoReconnect THEN TRUE ELSE @,
                   !.bt = InitBleTask]

(* The devices a scan can report: advertised service, name. *)
Devices ==
  [ obd |-> [service |-> TRUE, name |-> "OBDII"],
    named |-> [service |-> FALSE, name |-> "OBD2_Simulator_BLE"],
    other |-> [service |-> FALSE, name |-> "Headset"] ]

(* lines 549-560 with the name test only *)
targetFoundByName(c, dev) == Devices[dev].name = c.deviceName

targetFound(c, dev) ==
  IF Devices[dev].service THEN TRUE ELSE Devices[dev].name = c.deviceName

(* OBDScanCallbacks::onResult, lines 543-569 *)
onResult(w) ==
  LET c == w.c
      pc == w.bt.pc
  IN
  CASE pc = "O551" ->
         [w EXCEPT !.bt.pc = IF targetFound(c, w.bt.dev)
                             THEN "O563" ELSE "none"]
    [] pc = "O563" -> [w EXCEPT !.env.scanActive = FALSE, !.bt.pc = "O564"]
    [] pc = "O564" -> [w EXCEPT !.c.targetDevice = w.bt.dev, !.bt.pc = "O565"]
    [] pc = "O565" -> [w EXCEPT !.c.deviceFound = TRUE, !.bt.pc = "O566"]
    [] pc = "O566" -> [w EXCEPT !.c.doConnect = TRUE, !.bt.pc = "O567"]
    [] pc = "O567" -> [w EXCEPT !.c.doScan = FALSE, !.bt = InitBleTask]

BleStep(w, ub) ==
  LET pc == w.bt.pc
  IN
  CASE pc \in {"X529", "X530", "X532", "X537"} -> onDisconnect(w)
    [] pc \in {"O551", "O563", "O564", "O565", "O566", "O567"} -> onResult(w)
    [] OTHER -> processIncomingData(w, ub)

RECURSIVE BleRun(_)
BleRun(w) ==
  IF w.bt.pc = "none" \/ w.env.crashed THEN w ELSE BleRun(BleStep(w, "lost"))

(* No callback can be called: no link, no scan, none running. *)
Isolated(w) ==
  /\ w.env.link = "down"
  /\ ~w.env.scanActive
  /\ w.bt.pc = "none"

(* A handler runs to its end, when handlers are atomic or no callback can  *)
(* be called before it ends; otherwise it is left at its first statement.  *)
Finish(w, atomic) ==
  IF atomic \/ Isolated(w) THEN BleRun(LoopRun(w)) ELSE w

(***************************************************************************)
(* The environment.  The nominal adapter answers every command at once,    *)
(* in one notification; a link stays up; a scan finds the device; a        *)
(* connect succeeds.  Every departure from that (and every disconnect()    *)
(* call of the application) is counted in env.faults, at most MaxFaults    *)
(* in a run.  An answer that is not stalled arrives before the loop task   *)
(* leaves the wait it is in (Urgent).                                      *)
(***************************************************************************)
Alive == ~env.crashed

MayFault == env.faults < MaxFaults

Fault(w) == [w EXCEPT !.env.faults = @ + 1]

RECURSIVE FirstDue(_, _)
FirstDue(wire, i) ==
  IF i > Len(wire) THEN 0
  ELSE IF ~wire[i].late THEN i
  ELSE FirstDue(wire, i + 1)

(* the answer the adapter is about to give, if any: a position in wire *)
Due == FirstDue(env.wire, 1)

Remove(seq, i) == SubSeq(seq, 1, i - 1) \o SubSeq(seq, i + 1, Len(seq))

Urgent ==
  /\ env.link = "up"
  /\ Due # 0

(* A wait of the loop task lasts milliseconds, a callback microseconds: no  *)
(* wait ends while a callback is running, an answer is due, or the close   *)
(* of the link has not been reported yet.                                  *)
Quiet ==
  /\ Alive
  /\ ~Urgent
  /\ env.link # "closing"
  /\ bleTask.pc = "none"

AtWait(label) == Quiet /\ loopTask.pc = label

(***************************************************************************)
(* The loop task's waits coming to an end.                                 *)
(***************************************************************************)
(* setup() of main.cpp configures the client, then calls begin() *)
setAutoReconnect(c, enabled) == [c EXCEPT !.autoReconnect = enabled]

SetAutoReconnect ==
  /\ AtWait("new")
  /\ client.autoReconnect
  /\ client' = setAutoReconnect(client, FALSE)
  /\ UNCHANGED <<loopTask, bleTask, env, bench>>

setTimeout(c, timeoutMs) == [c EXCEPT !.defaultTimeout = timeoutMs]

SetTimeout ==
  /\ AtWait("new")
  /\ client.defaultTimeout = DefaultTimeout
  /\ client' = setTimeout(client, ShortTimeout)
  /\ UNCHANGED <<loopTask, bleTask, env, bench>>

(* begin() is called.  Statement-by-statement interleaving is explored for *)
(* the short timeout and MaxRaceCommands commands.                         *)
Begin(atomic) ==
  /\ AtWait("new")
  /\ atomic \/ client.defaultTimeout = ShortTimeout
  /\ Commit(Finish(Goto([World EXCEPT !.env.maxCommands =
                                        IF atomic THEN MaxCommands
                                        ELSE MaxRaceCommands],
                        "B38"), atomic))

(* delay(50) at the end of loop() is over and loop() is called again *)
LoopAgain(atomic) ==
  /\ AtWait("D110")
  /\ Commit(Finish(Goto(Elapse(World, LoopDelay), "L55"), atomic))

(* a delay() of initializeOBD is over *)
Delay(atomic) ==
  /\ Quiet
  /\ loopTask.pc \in DOMAIN InitDelay
  /\ Commit(Finish(Goto(Elapse(World, InitDelay[loopTask.pc]),
                        AfterDelay[loopTask.pc]), atomic))

(* pBLEScan->start(10, false) returns: stopped by onResult ... *)
ScanStopped(atomic) ==
  /\ AtWait("scan")
  /\ ~env.scanActive
  /\ Commit(Finish(Goto(World, "S50"), atomic))

(* ... or after its 10 seconds without a match *)
ScanTimesOut(atomic) ==
  /\ AtWait("scan")
  /\ env.scanActive
  /\ MayFault
  /\ Commit(Finish(Goto([Fault(Elapse(World, ScanDuration))
                           EXCEPT !.env.scanActive = FALSE], "S50"), atomic))

(* connectToDevice setting deviceConnected right after pClient->connect,   *)
(* before the service is resolved                                          *)
connectToDeviceFlagEarly(w, outcome) ==
  IF w.c.targetDevice = "nullptr" THEN Goto(w, "L64")
  ELSE CASE outcome = "connected" ->
              [w EXCEPT !.env.link = "up",
                        !.env.session = @ + 1,
                        !.c.pTxCharacteristic = TRUE,
                        !.c.deviceConnected = TRUE,
                        !.c.stats.lastConnectionTime = 0,
                        !.lp.pc = "L59"]
         [] outcome = "connectFailed" -> Goto(w, "L64")
         [] outcome = "serviceMissing" ->
              [w EXCEPT !.env.link = "closing",
                        !.c.deviceConnected = TRUE,
                        !.lp.pc = "L64"]

(* connectToDevice, lines 113-172, returns true ... *)
connectToDevice(w, outcome) ==
  IF w.c.targetDevice = "nullptr" THEN Goto(w, "L64")
  ELSE CASE outcome = "connected" ->
              [w EXCEPT !.env.link = "up",
                        !.env.session = @ + 1,
                        !.c.pTxCharacteristic = TRUE,
                        !.c.deviceConnected = TRUE,
                        !.c.stats.lastConnectionTime = 0,
                        !.lp.pc = "L59"]
         [] outcome = "connectFailed" -> Goto(w, "L64")
         [] outcome = "serviceMissing" ->
              [w EXCEPT !.env.link = "closing", !.lp.pc = "L64"]

ConnectSucceeds(atomic) ==
  /\ AtWait("connect")
  /\ env.link = "down"
  /\ Commit(Finish(connectToDevice(World, "connected"), atomic))

(* ... or false: no connection, or no service on the connected device *)
ConnectFails(atomic) ==
  /\ AtWait("connect")
  /\ env.link = "down"
  /\ MayFault
  /\ \E outcome \in {"connectFailed", "serviceMissing"} :
       Commit(Finish(connectToDevice(Fault(World), outcome), atomic))

(* lines 174-180, the engine speed forgotten with the connection *)
disconnectForgetsData(w) ==
  IF w.c.deviceConnected
  THEN [w EXCEPT !.env.link = IF @ = "up" THEN "closing" ELSE @,
                 !.c = updateConnectionState(
                         [w.c EXCEPT !.deviceConnected = FALSE,
                                     !.obdData.rpm = NoValue],
                         DISCONNECTED)]
  ELSE w

(* disconnect(), lines 174-180, called by the application between two      *)
(* calls of loop()                                                         *)
disconnect(w) ==
  IF w.c.deviceConnected
  THEN [w EXCEPT !.env.link = IF @ = "up" THEN "closing" ELSE @,
                 !.c = updateConnectionState(
                         [w.c EXCEPT !.deviceConnected = FALSE], DISCONNECTED)]
  ELSE w

Disconnect ==
  /\ AtWait("D110")
  /\ MayFault
  /\ Commit(disconnect(Fault(World)))

(***************************************************************************)
(* The BLE task's callbacks being called.                                  *)
(***************************************************************************)
BleIdle == Alive /\ bleTask.pc = "none"

(* bleNotifyCallback, lines 572-582: the first k characters of the         *)
(* adapter's i-th pending answer arrive as one notification                *)
bleNotifyCallback(w, i, k) ==
  LET reply == w.env.wire[i]
      rest == SubSeq(reply.data, k + 1, Len(reply.data))
  IN  [w EXCEPT !.env.wire =
                   IF rest = << >> THEN Remove(@, i)
                   ELSE [@ EXCEPT ![i].data = rest],
                !.bt.data = SubSeq(reply.data, 1, k),
                !.bt.seq = reply.seq,
                !.bt.session = reply.session,
                !.bt.expired = reply.expired,
                !.bt.pc = "N315"]

(* the due answer arrives, or one that was stalled arrives at last *)
Notify(atomic) ==
  /\ BleIdle
  /\ env.link = "up"
  /\ \E i \in DOMAIN env.wire :
       /\ env.wire[i].late \/ i = Due
       /\ Commit(Finish(bleNotifyCallback(World, i, Len(env.wire[i].data)),
                        atomic))

(* the same, the prompt arriving in a notification of its own *)
NotifySplit(atomic) ==
  /\ BleIdle
  /\ Urgent
  /\ Len(env.wire[Due].data) > 1
  /\ MayFault
  /\ Commit(Finish(bleNotifyCallback(Fault(World), Due,
                                     Len(env.wire[Due].data) - 1), atomic))

(* the link is gone: what the adapter still owes may come after a          *)
(* reconnect, or never                                                     *)
LinkDown(w) ==
  [w EXCEPT !.env.link = "down",
            !.env.wire = [i \in DOMAIN @ |-> [@[i] EXCEPT !.late = TRUE]],
            !.bt.pc = "X529"]

LinkLost(atomic) ==
  /\ BleIdle
  /\ env.link = "up"
  /\ MayFault
  /\ Commit(Finish(LinkDown(Fault(World)), atomic))

LinkClosed(atomic) ==
  /\ BleIdle
  /\ env.link = "closing"
  /\ Commit(Finish(LinkDown(World), atomic))

ScanResult(atomic) ==
  /\ BleIdle
  /\ env.scanActive
  /\ \E dev \in DOMAIN Devices :
       Commit(Finish([World EXCEPT !.bt.dev = dev, !.bt.pc = "O551"], atomic))

(***************************************************************************)
(* The adapter departing from the nominal answer.  The adapter takes       *)
(* milliseconds to answer: what it answers is settled while the loop task  *)
(* waits.                                                                  *)
(***************************************************************************)
Answering == Alive /\ loopTask.pc \in Waits /\ bleTask.pc = "none"

ReplyStalled ==
  /\ Answering
  /\ Urgent
  /\ MayFault
  /\ env' = [env EXCEPT !.wire[Due].late = TRUE, !.faults = @ + 1]
  /\ UNCHANGED <<client, loopTask, bleTask, bench>>

ReplyLost ==
  /\ Answering
  /\ \E i \in DOMAIN env.wire :
       /\ env.wire[i].late \/ (i = Due /\ MayFault)
       /\ env' = [env EXCEPT !.wire = Remove(@, i),
                             !.faults = IF env.wire[i].late THEN @ ELSE @ + 1]
  /\ UNCHANGED <<client, loopTask, bleTask, bench>>

ReplyNoData ==
  /\ Answering
  /\ Urgent
  /\ MayFault
  /\ env.wire[Due].data # Framed(NO_DATA)
  /\ env' = [env EXCEPT !.wire[Due].data = Framed(NO_DATA), !.faults = @ + 1]
  /\ UNCHANGED <<client, loopTask, bleTask, bench>>

(***************************************************************************)
(* Spec: handlers and callbacks run to completion.  SpecRace: the two      *)
(* tasks interleave statement by statement.                                *)
(***************************************************************************)
Environment ==
  \/ ReplyStalled
  \/ ReplyLost
  \/ ReplyNoData

Next ==
  \/ SetAutoReconnect
  \/ SetTimeout
  \/ Begin(TRUE)
  \/ LoopAgain(TRUE)
  \/ Delay(TRUE)
  \/ ScanStopped(TRUE)
  \/ ScanTimesOut(TRUE)
  \/ ConnectSucceeds(TRUE)
  \/ ConnectFails(TRUE)
  \/ Disconnect
  \/ Notify(TRUE)
  \/ NotifySplit(TRUE)
  \/ LinkLost(TRUE)
  \/ LinkClosed(TRUE)
  \/ ScanResult(TRUE)
  \/ Environment

Spec == Init /\ [][Next]_vars

LoopStatement ==
  /\ Alive
  /\ loopTask.pc \notin Waits
  /\ Commit(LoopStep(World))

BleStatement ==
  /\ Alive
  /\ bleTask.pc # "none"
  /\ \E ub \in {"lost", "crash"} : Commit(BleStep(World, ub))

(* loop() is called once more before the BLE task reports the disconnect   *)
(* that disconnect() asked for                                             *)
LoopBeforeClosed ==
  /\ Alive
  /\ bleTask.pc = "none"
  /\ env.link = "closing"
  /\ loopTask.pc = "D110"
  /\ client.lastStateChange = 0
  /\ Commit(Finish(Goto(Elapse(World, LoopDelay), "L55"), FALSE))

NextRace ==
  \/ SetAutoReconnect
  \/ SetTimeout
  \/ Begin(FALSE)
  \/ LoopAgain(FALSE)
  \/ Delay(FALSE)
  \/ ScanStopped(FALSE)
  \/ ScanTimesOut(FALSE)
  \/ ConnectSucceeds(FALSE)
  \/ ConnectFails(FALSE)
  \/ Disconnect
  \/ Notify(FALSE)
  \/ NotifySplit(FALSE)
  \/ LinkLost(FALSE)
  \/ LinkClosed(FALSE)
  \/ ScanResult(FALSE)
  \/ Environment
  \/ LoopStatement
  \/ BleStatement
  \/ LoopBeforeClosed

SpecRace == Init /\ [][NextRace]_vars

(***************************************************************************)
(* SpecParse: the adapter answers the PID request in flight with any text  *)
(* of a bounded family, and the answer goes the way of every answer:       *)
(* bleNotifyCallback and processIncomingData frame it, the second next     *)
(* call of loop() settles it (the first is throttled).  Beside that,       *)
(* Parse calls the parser of the request on the text, as line 247 does.    *)
(*                                                                         *)
(* A text is a header, then up to MaxDataBytes data bytes of two           *)
(* characters, either packed ("410C1AF8") or with ELM327 spacing           *)
(* ("41 0C 1A F8"); or one of the adapter's bare messages.                 *)
(***************************************************************************)
MaxDataBytes == 2

Headers ==
  { <<"4", "1", "0", "C">>, <<"4", "1", "0", "D">>, <<"4", "1", "0", "5">>,
    <<"4", "1", "5", "C">>, <<"4", "1", "2", "F">>, <<"4", "1", "1", "0">>,
    <<"7", "F", "0", "1">>, <<"4", "3", "0", "5">> }

DataBytes ==
  { <<"5", "0">>, <<"6", "4">>, <<"1", "A">>, <<"F", "8">>, <<"f", "f">>,
    <<"1", "G">> }

BareTexts == { << >>, NO_DATA, TIMEOUT, <<"O", "K">> }

DataSeqs == UNION { [1..k -> DataBytes] : k \in 0..MaxDataBytes }

RECURSIVE Join(_, _)
Join(data, gap) ==
  IF data = << >> THEN << >>
  ELSE gap \o Head(data) \o Join(Tail(data), gap)

Packed(header, data) == header \o Join(data, << >>)

Spaced(header, data) ==
  SubSeq(header, 1, 2) \o <<" ">> \o SubSeq(header, 3, 4)
    \o Join(data, <<" ">>)

Texts ==
  { [header |-> h, data |-> d, spaced |-> sp,
     text |-> IF sp THEN Spaced(h, d) ELSE Packed(h, d)] :
       h \in Headers, d \in DataSeqs, sp \in BOOLEAN }
  \cup { [header |-> t, data |-> << >>, spaced |-> FALSE, text |-> t] :
           t \in BareTexts }

(* the value a well-formed answer to the k-th command decodes to *)
GoodValue(k) ==
  parseFunction(OBDCommands[k].parseFunction,
                GoodReply(OBDCommands[k].command)).value

RECURSIVE Loaded(_, _)
Loaded(w, n) ==
  IF n = 0 THEN w ELSE addCommand(Loaded(w, n - 1), OBDCommands[n])

(* The client in its second round of the queue, back from the call of     *)
(* loop() that settled slot i - 1 and sent the command of slot i; the      *)
(* adapter owes the answer, and answers text.                              *)
AnswerPending(i, text) ==
  LET total == Len(OBDCommands) + i + 1
      seq == Cardinality(DOMAIN InitCommands) + total
      lag == MaxLag(InitClient)
      c0 == [InitClient EXCEPT
               !.deviceConnected = TRUE,
               !.deviceFound = TRUE,
               !.connectionState = CONNECTED,
               !.previous = [state |-> INITIALIZING, age |-> lag],
               !.targetDevice = "obd",
               !.pTxCharacteristic = TRUE,
               !.obdData =
                  [f \in DOMAIN @ |->
                     IF f = "lastUpdate" THEN 0
                     ELSE GoodValue(CHOOSE k \in DOMAIN OBDCommands :
                                      OBDCommands[k].targetVariable = f)],
               !.stats = [@ EXCEPT !.totalCommands = total,
                                   !.successfulCommands = total - 1,
                                   !.averageResponseTime = 2 * LoopDelay,
                                   !.lastConnectionTime = MaxUptime],
               !.currentCommandIndex = i,
               !.lastCommandTime = 0,
               !.waitingForResponse = TRUE,
               !.lastStateChange = lag,
               !.scanStartTime = lag,
               !.lastCommandCheck = 0]
      e0 == [InitEnv EXCEPT
               !.link = "up",
               !.session = 1,
               !.millis = lag,
               !.txCount = seq,
               !.lastWrite = seq,
               !.maxCommands = total,
               !.wire = << [seq |-> seq, session |-> 1, late |-> FALSE,
                            expired |-> FALSE,
                            command |-> OBDCommands[i + 1].command,
                            data |-> Framed(text)] >>]
      w0 == Loaded([c |-> c0, lp |-> [InitLoopTask EXCEPT !.pc = "D110"],
                    bt |-> InitBleTask, env |-> e0], Len(OBDCommands))
  IN  [w0 EXCEPT !.c.commandQueue[i + 1].sentTime = 0,
                 !.c.commandQueue[i + 1].txSeq = seq]

InitParse ==
  \E i \in 0..(Len(OBDCommands) - 1), t \in Texts :
    LET w == AnswerPending(i, t.text)
    IN  /\ client = w.c
        /\ loopTask = w.lp
        /\ bleTask = w.bt
        /\ env = w.env
        /\ bench = [InitBench EXCEPT !.command = OBDCommands[i + 1].command,
                                     !.header = t.header,
                                     !.data = t.data,
                                     !.spaced = t.spaced,
                                     !.response = t.text]

(* line 247: cmd.parseFunction(cmd.rawResponse, cmd.targetVariable), the   *)
(* parser writing through the pointer exactly when it returns true         *)
Parse ==
  /\ ~bench.called
  /\ LET k == CHOOSE k \in DOMAIN OBDCommands :
                OBDCommands[k].command = bench.command
         parsed == parseFunction(OBDCommands[k].parseFunction, bench.response)
     IN  bench' = [bench EXCEPT !.called = TRUE,
                                !.ok = parsed.ok,
                                !.value = IF parsed.ok THEN parsed.value
                                          ELSE @]
  /\ UNCHANGED <<client, loopTask, bleTask, env>>

Answered ==
  \E k \in DOMAIN client.commandQueue : client.commandQueue[k].completed

(* loop() is called while an answer waits in its slot *)
Settle == Answered /\ LoopAgain(TRUE)

NextParse ==
  \/ Parse
  \/ Notify(TRUE)
  \/ Settle

SpecParse == InitParse /\ [][NextParse]_vars

(***************************************************************************)
(* SpecFrame: the answer to the first PID request reaches the client as    *)
(* any sequence of notifications.  The adapter sends white space, the      *)
(* text, white space, the prompt and possibly more; bench.response is the  *)
(* text, bench.stream all it sends.                                        *)
(***************************************************************************)
FrameTexts == { GoodReply("010C"), NO_DATA, <<"O", "K">>, << >> }

Leads == { << >>, <<"\r">>, <<" ", "\n">> }

Trails == { << >>, <<"\r">>, <<"\r", "\n">> }

Afters == { << >>, <<"\r">>, <<"O", "K", ">">> }

InitFrame ==
  \E t \in FrameTexts, lead \in Leads, trail \in Trails, after \in Afters :
    LET stream == lead \o t \o trail \o <<">">> \o after
        w == [AnswerPending(0, t) EXCEPT !.env.wire[1].data = stream]
    IN  /\ client = w.c
        /\ loopTask = w.lp
        /\ bleTask = w.bt
        /\ env = w.env
        /\ bench = [InitBench EXCEPT !.command = OBDCommands[1].command,
                                     !.response = t,
                                     !.stream = stream]

(* bleNotifyCallback with the next k characters the adapter sends *)
NotifyFragment(atomic) ==
  /\ BleIdle
  /\ Urgent
  /\ \E k \in 1..Len(env.wire[Due].data) :
       Commit(Finish(bleNotifyCallback(World, Due, k), atomic))

NextFrame ==
  \/ NotifyFragment(TRUE)
  \/ Settle

SpecFrame == InitFrame /\ [][NextFrame]_vars

(***************************************************************************)
(* The adapter out of reach.  The device is found by every scan and every  *)
(* connect attempt fails, MaxAttempts times in a row: the client goes      *)
(* round scan, connect, error.                                             *)
(***************************************************************************)
MaxAttempts == 3

ConnectRefused ==
  /\ AtWait("connect")
  /\ env.link = "down"
  /\ env.faults < MaxAttempts
  /\ \E outcome \in {"connectFailed", "serviceMissing"} :
       Commit(Finish(connectToDevice(Fault(World), outcome), TRUE))

NextRetry ==
  \/ SetAutoReconnect
  \/ SetTimeout
  \/ Begin(TRUE)
  \/ LoopAgain(TRUE)
  \/ ScanResult(TRUE)
  \/ ScanStopped(TRUE)
  \/ ScanTimesOut(TRUE)
  \/ ConnectRefused

SpecRetry == Init /\ [][NextRetry]_vars

(* the same, and loop() is called again and again: the Arduino core calls  *)
(* loop() of main.cpp for ever                                             *)
SpecRetryLive == Init /\ [][NextRetry]_vars /\ WF_vars(LoopAgain(TRUE))

(***************************************************************************)
(* The adapter silent.  The device is found and the connect succeeds, but  *)
(* no command is ever answered: every PID command runs into its timeout.   *)
(***************************************************************************)
ReplyWithheld ==
  /\ Answering
  /\ Urgent
  /\ env' = [env EXCEPT !.wire = Remove(@, Due)]
  /\ UNCHANGED <<client, loopTask, bleTask, bench>>

NextSilent ==
  \/ SetTimeout
  \/ Begin(TRUE)
  \/ LoopAgain(TRUE)
  \/ Delay(TRUE)
  \/ ScanResult(TRUE)
  \/ ScanStopped(TRUE)
  \/ ConnectSucceeds(TRUE)
  \/ ReplyWithheld

SpecSilent == Init /\ [][NextSilent]_vars

(***************************************************************************)
(* Vocabulary of the properties.                                           *)
(***************************************************************************)
(* slot i (counted from 0) has been sent and is not completed *)
InFlight(i) ==
  /\ client.commandQueue[i + 1].sentTime # NoStamp
  /\ ~client.commandQueue[i + 1].completed

Slots == {i \in 0..(Len(OBDCommands) - 1) : InQueue(client, i)}

SlotsInFlight == {i \in Slots : InFlight(i)}

Linked == client.deviceConnected /\ client.connectionState = CONNECTED

(***************************************************************************)
(* C1: whatever loop passes, replies, timeouts and disconnects have        *)
(* happened, at most one slot of the queue is in flight (sent-at stamp set *)
(* and not completed).                                                     *)
(***************************************************************************)
C1_AtMostOneInFlight == Cardinality(SlotsInFlight) <= 1

(* a second command is in flight after a first one timed out *)
C1_Witness ==
  /\ Cardinality(SlotsInFlight) = 1
  /\ client.stats.failedCommands >= 1
  /\ client.stats.totalCommands >= 2

(***************************************************************************)
(* C2: while the link is up and the state is Connected the queue does not  *)
(* stall.  Between two passes of loop(), a command in flight has been      *)
(* waiting for no longer than the timeout (beyond it, the pass has         *)
(* completed it as failed), and when no command is in flight the queue was *)
(* processed less than the throttle interval ago (the completed slot has   *)
(* been settled, the cursor advanced, the next command sent), unless the   *)
(* model's budget of commands is used up.                                  *)
(***************************************************************************)
BetweenPasses == loopTask.pc = "D110" /\ bleTask.pc = "none"

Telemetry == [f \in TelemetryFields |-> client.obdData[f]]

TimedOut(slot) == slot.completed /\ slot.rawResponse = TIMEOUT

(* the slot at the cursor is completed by handleTimeout in this step *)
TimeoutFires ==
  /\ InQueue(client, client.currentCommandIndex)
  /\ ~TimedOut(client.commandQueue[client.currentCommandIndex + 1])
  /\ Len(client.commandQueue') = Len(client.commandQueue)
  /\ client.currentCommandIndex' = client.currentCommandIndex
  /\ TimedOut(client.commandQueue'[client.currentCommandIndex + 1])

(* the timed-out slot at the cursor is settled and cleared in this step *)
TimedOutSettled ==
  /\ loopTask.pc = "D110"
  /\ InQueue(client, client.currentCommandIndex)
  /\ TimedOut(client.commandQueue[client.currentCommandIndex + 1])
  /\ env.session' = env.session
  /\ Len(client.commandQueue') = Len(client.commandQueue)
  /\ ~client.commandQueue'[client.currentCommandIndex + 1].completed

TelemetryKept ==
  /\ Telemetry' = Telemetry
  /\ client.obdData.lastUpdate' # 0

C3_TimeoutCountsOneFailure ==
  [][ /\ TimeoutFires =>
          /\ client.stats.failedCommands' = client.stats.failedCommands + 1
          /\ client.stats.successfulCommands' = client.stats.successfulCommands
          /\ TelemetryKept
      /\ TimedOutSettled =>
          /\ client.stats.failedCommands' = client.stats.failedCommands
          /\ client.stats.successfulCommands' = client.stats.successfulCommands
          /\ TelemetryKept ]_vars

(***************************************************************************)
(* C4: apart from begin(), the state goes from Disconnected or Error to    *)
(* Scanning only when at least ReconnectCooldown milliseconds have passed  *)
(* since the last state change.                                            *)
(***************************************************************************)
C4_ScanOnlyAfterCooldown ==
  (/\ client.connectionState = SCANNING
   /\ client.previous.state \in {DISCONNECTED, ERROR_STATE}) =>
     client.previous.age >= ReconnectCooldown

(***************************************************************************)
(* C5: with auto-reconnect disabled, the client never starts a scan on its *)
(* own out of Disconnected or Error, whether it got there by a link loss   *)
(* or by a failed connect: the only scan is the one begin() starts.        *)
(***************************************************************************)
C5_NoScanWithoutAutoReconnect ==
  (~client.autoReconnect /\ client.connectionState = SCANNING) =>
     client.previous.state = "boot"

(***************************************************************************)
(* C6: whenever the state becomes Connected in a session that follows a    *)
(* disconnect, the cursor is 0, no command is in flight, no slot holds     *)
(* data of the session before, and the incoming buffer is empty.           *)
(***************************************************************************)
CleanQueue ==
  /\ client.currentCommandIndex = 0
  /\ ~client.waitingForResponse
  /\ \A i \in Slots :
       /\ ~client.commandQueue[i + 1].completed
       /\ client.commandQueue[i + 1].rawResponse = << >>
       /\ client.commandQueue[i + 1].sentTime = NoStamp
  /\ client.incomingData = << >>

BecomesConnected ==
  /\ client.connectionState # CONNECTED
  /\ client.connectionState' = CONNECTED

C6_ConnectedStartsClean ==
  [][(BecomesConnected /\ env.session' >= 2) => CleanQueue']_vars

(***************************************************************************)
(* C7: a link loss or a call of disconnect() leaves waitingForResponse     *)
(* false and the queue cleared; while the link stays down no timeout fires *)
(* and no failure is counted, and a further disconnect() changes nothing.  *)
(***************************************************************************)
LinkGoesDown == client.deviceConnected /\ ~client.deviceConnected'

LinkStaysDown == ~client.deviceConnected /\ ~client.deviceConnected'

C7_DisconnectClearsQueue ==
  [][ /\ LinkGoesDown =>
          /\ ~client.waitingForResponse'
          /\ client.commandQueue' = << >>
      /\ LinkStaysDown =>
          /\ client.stats.failedCommands' = client.stats.failedCommands
          /\ client.waitingForResponse' = client.waitingForResponse ]_vars

(***************************************************************************)
(* C8: the reset of the queue is atomic with respect to the inbound-data   *)
(* callback: the callback never writes through a slot reference that is no *)
(* longer in the queue, and a reply to a command of an earlier session     *)
(* never completes a slot of the current session.                          *)
(***************************************************************************)
CompletedByReply(slot) == slot.completed /\ slot.rxSeq # 0

C8_ResetAtomicWithCallback ==
  /\ ~env.strayWrite
  /\ \A i \in Slots :
       CompletedByReply(client.commandQueue[i + 1]) =>
          client.commandQueue[i + 1].rxSession =
             client.commandQueue[i + 1].session

(***************************************************************************)
(* C9: a reply that arrives after its command has timed out is dropped: it *)
(* is never stored in the slot of the command that is then in flight (nor  *)
(* in any other slot).                                                     *)
(***************************************************************************)
C9_LateReplyDropped ==
  \A i \in Slots : ~client.commandQueue[i + 1].rxExpired

(***************************************************************************)
(* C10: the pass of loop() that processes the completed slot at the cursor *)
(* moves the cursor by exactly one slot, back to 0 after the last slot;    *)
(* and whenever the queue is not empty the cursor is a position of the     *)
(* queue.                                                                  *)
(***************************************************************************)
(* the completed slot at the cursor is settled and cleared in this step *)
CompletedSlotProcessed ==
  /\ loopTask.pc = "D110"
  /\ InQueue(client, client.currentCommandIndex)
  /\ client.commandQueue[client.currentCommandIndex + 1].completed
  /\ env.session' = env.session
  /\ Len(client.commandQueue') = Len(client.commandQueue)
  /\ ~client.commandQueue'[client.currentCommandIndex + 1].completed

C10_CursorAdvancesByOne ==
  [][ /\ CompletedSlotProcessed =>
          client.currentCommandIndex' =
             (client.currentCommandIndex + 1) % Len(client.commandQueue)
      /\ client.commandQueue' # << >> =>
          client.currentCommandIndex' \in 0..(Len(client.commandQueue') - 1)
    ]_vars

(* the eighth slot has been processed: the cursor is back on slot 0, whose *)
(* command is in flight for the second time                                *)
C10_Witness ==
  /\ env.session = 1
  /\ client.stats.totalCommands = Len(OBDCommands) + 1
  /\ client.stats.successfulCommands + client.stats.failedCommands
       >= Len(OBDCommands)
  /\ client.currentCommandIndex = 0
  /\ SlotsInFlight = {0}

(***************************************************************************)
(* Vocabulary of the parser properties: the header a reply to the command  *)
(* has to carry, the length its parser needs, fractions as values.         *)
(***************************************************************************)
Echo(command) == SubSeq(GoodReply(command), 1, 4)

MinLength(command) == IF command \in {"010C", "0110"} THEN 8 ELSE 6

Mismatched(command, response) ==
  ~startsWith(removeSpaces(response), Echo(command))

FloatEq(x, y) == x.n * y.d = y.n * x.d

Whole(n) == [n |-> n, d |-> 1]

IsHexByte(byte) == IsHexDigit(byte[1]) /\ IsHexDigit(byte[2])

ByteValue(byte) == HexValue(byte[1]) * 16 + HexValue(byte[2])

(***************************************************************************)
(* C11: a parser called on a reply shorter than its minimum length, or on  *)
(* a reply whose header (response prefix and echoed PID) is not the one of *)
(* the PID being parsed, returns failure and writes no value.              *)
(***************************************************************************)
C11_ParsersFailClosed ==
  ( /\ bench.called
    /\ \/ Len(bench.response) < MinLength(bench.command)
       \/ Mismatched(bench.command, bench.response) )
  => ~bench.ok /\ bench.value = InitBench.value

(***************************************************************************)
(* C12: a reply that has the parser's minimum length only when its         *)
(* embedded spaces are counted is a parse failure.                         *)
(***************************************************************************)
C12_LengthAfterStripping ==
  ( /\ bench.called
    /\ Len(bench.response) >= MinLength(bench.command)
    /\ Len(removeSpaces(bench.response)) < MinLength(bench.command) )
  => ~bench.ok /\ bench.value = InitBench.value

(***************************************************************************)
(* C13: when the completed slot that loop() settles holds a reply with the *)
(* right header and length whose data bytes are not hexadecimal digits,    *)
(* the command is counted as failed and not as successful, no telemetry    *)
(* field is written, and the program goes on.                              *)
(***************************************************************************)
CursorSlot == client.commandQueue[client.currentCommandIndex + 1]

NonHexData(command, response) ==
  LET r == removeSpaces(response)
  IN  /\ startsWith(r, Echo(command))
      /\ Len(r) >= MinLength(command)
      /\ \E j \in 5..MinLength(command) : ~IsHexDigit(r[j])

C13_NonHexIsParseFailure ==
  [][ ( /\ CompletedSlotProcessed
        /\ NonHexData(CursorSlot.command, CursorSlot.rawResponse) )
      => /\ client.stats.failedCommands' = client.stats.failedCommands + 1
         /\ client.stats.successfulCommands' = client.stats.successfulCommands
         /\ Telemetry' = Telemetry
         /\ ~env.crashed'
    ]_vars

(***************************************************************************)
(* C14: for a well-formed reply (the header of the PID, then hexadecimal   *)
(* data bytes), packed or with embedded spaces, parseSpeed returns the     *)
(* first data byte, a value in 0..255, parseTemperature that byte minus    *)
(* 40, and parseRPM (a * 256 + b) / 4 for the first two data bytes; 410D50 *)
(* gives 80, 410564 gives 60 and 410C1AF8 gives 1726.                      *)
(***************************************************************************)
DataNeeded == IF bench.command = "010C" THEN 2 ELSE 1

WellFormed ==
  /\ bench.command \in {"010C", "010D", "0105", "015C"}
  /\ bench.header = Echo(bench.command)
  /\ Len(bench.data) >= DataNeeded
  /\ \A j \in 1..DataNeeded : IsHexByte(bench.data[j])

Decoded ==
  CASE bench.command = "010D" -> Whole(ByteValue(bench.data[1]))
    [] bench.command \in {"0105", "015C"} ->
         Whole(ByteValue(bench.data[1]) - 40)
    [] bench.command = "010C" ->
         [n |-> ByteValue(bench.data[1]) * 256 + ByteValue(bench.data[2]),
          d |-> 4]

Example(command, packed, n) ==
  ( /\ bench.called
    /\ bench.command = command
    /\ removeSpaces(bench.response) = packed )
  => bench.ok /\ FloatEq(bench.value, Whole(n))

C14_WellFormedRepliesDecode ==
  /\ (bench.called /\ WellFormed)
       => /\ bench.ok
          /\ FloatEq(bench.value, Decoded)
          /\ bench.command = "010D" =>
               bench.value.d = 1 /\ bench.value.n \in 0..255
  /\ Example("010D", <<"4", "1", "0", "D", "5", "0">>, 80)
  /\ Example("0105", <<"4", "1", "0", "5", "6", "4">>, 60)
  /\ Example("010C", <<"4", "1", "0", "C", "1", "A", "F", "8">>, 1726)

(* parseTemperature has decoded "41 05 64", with its spaces, to 60 *)
C14_Witness ==
  /\ bench.called
  /\ bench.command = "0105"
  /\ bench.response = <<"4", "1", " ", "0", "5", " ", "6", "4">>
  /\ bench.ok
  /\ bench.value = Whole(60)

(***************************************************************************)
(* C15: in every reachable state getSuccessRate divides by a non-zero      *)
(* total; it returns 0 while no command has been issued and                *)
(* successful * 100 / total afterwards.                                    *)
(***************************************************************************)
C15_SuccessRate ==
  LET rate == getSuccessRate(client)
  IN  /\ rate.d # 0
      /\ client.stats.totalCommands = 0 => rate.n = 0
      /\ client.stats.totalCommands # 0 =>
           rate.n * client.stats.totalCommands =
             client.stats.successfulCommands * 100 * rate.d

(* commands have succeeded and failed: the rate is strictly between 0 and  *)
(* 100                                                                     *)
C15_Witness ==
  /\ client.stats.successfulCommands >= 1
  /\ client.stats.failedCommands >= 1
  /\ client.stats.totalCommands >= 2
  /\ getSuccessRate(client).n > 0
  /\ getSuccessRate(client).n < 100 * getSuccessRate(client).d

(***************************************************************************)
(* C16: when the link is lost while the client is Connected, the step that *)
(* reports it (onDisconnect) adds to stats.connectionUptime the time since *)
(* the connection was made, the length of the session that ends.           *)
(***************************************************************************)
LinkLostWhileConnected ==
  /\ Linked
  /\ env.link = "up"
  /\ env.link' = "down"
  /\ ~client.deviceConnected'

C16_UptimeAccumulated ==
  [][ LinkLostWhileConnected =>
        client.stats.connectionUptime' =
          client.stats.connectionUptime + client.stats.lastConnectionTime
    ]_vars

(***************************************************************************)
(* C17: the state is Connected only when the initialization is over and    *)
(* the PID commands are loaded: never while the loop task has statements   *)
(* of initializeOBD still to run, nor with a queue that does not hold the  *)
(* commands of setupOBDCommands.                                           *)
(***************************************************************************)
InitializationPending ==
  loopTask.pc \in
    {"L184", "R364", "R365", "R366", "R367", "L203"}
      \cup DOMAIN InitCommands \cup DOMAIN InitDelay

CommandsLoaded ==
  /\ Len(client.commandQueue) = Len(OBDCommands)
  /\ \A k \in DOMAIN OBDCommands :
       client.commandQueue[k].command = OBDCommands[k].command

C17_ConnectedAfterInitialization ==
  client.connectionState = CONNECTED
    => ~InitializationPending /\ CommandsLoaded

(***************************************************************************)
(* C18: when connectToDevice fails (no connection, or a connected device   *)
(* without the service, a characteristic or notifications), the call of    *)
(* loop() that made the attempt puts the state to Error, and neither to    *)
(* Initializing nor to Connected, leaves deviceConnected false and sends   *)
(* no command.  env.session counts the attempts that succeeded.            *)
(***************************************************************************)
ConnectAttemptFails ==
  /\ loopTask.pc = "connect"
  /\ loopTask.pc' # "connect"
  /\ env.session' = env.session

EndsInError ==
  \/ client.connectionState' = ERROR_STATE
  \/ /\ client.connectionState' = SCANNING
     /\ client.previous'.state = ERROR_STATE

C18_FailedConnectEndsInError ==
  [][ ConnectAttemptFails =>
        /\ EndsInError
        /\ ~client.deviceConnected'
        /\ env.txCount' = env.txCount
        /\ client.stats.totalCommands' = client.stats.totalCommands
    ]_vars

(* the device was connected but has no service: the attempt is over, the   *)
(* state left is Error, the link is being closed again                     *)
C18_Witness ==
  /\ env.session = 0
  /\ env.link = "closing"
  /\ client.previous.state = ERROR_STATE
  /\ ~client.deviceConnected
  /\ env.txCount = 0

(***************************************************************************)
(* C19: when loop() settles a completed slot whose response is empty,      *)
(* begins with "NO DATA" or is rejected by the parser of the slot, it      *)
(* counts one failure and no success, and leaves every telemetry field     *)
(* and the last-update stamp as they were.                                 *)
(***************************************************************************)
FailedResponse(slot) ==
  \/ slot.rawResponse = << >>
  \/ startsWith(slot.rawResponse, NO_DATA)
  \/ ~parseFunction(slot.parseFunction, slot.rawResponse).ok

C19_FailedResponseCountsOneFailure ==
  [][ (CompletedSlotProcessed /\ FailedResponse(CursorSlot))
      => /\ client.stats.failedCommands' = client.stats.failedCommands + 1
         /\ client.stats.successfulCommands' = client.stats.successfulCommands
         /\ Telemetry' = Telemetry
         /\ client.obdData.lastUpdate' =
              Older(client.obdData.lastUpdate, LoopDelay, MaxLag(client))
    ]_vars

(* the answer 7F01 to the command 010C has been settled: one failure, the  *)
(* engine speed of the round before still stored                           *)
C19_Witness ==
  /\ bench.command = "010C"
  /\ bench.response = <<"7", "F", "0", "1">>
  /\ ~Answered
  /\ ~client.waitingForResponse
  /\ client.stats.failedCommands = 1
  /\ client.stats.successfulCommands = client.stats.totalCommands - 1
  /\ client.obdData.rpm = GoodValue(1)
  /\ client.obdData.lastUpdate = 2 * LoopDelay

(***************************************************************************)
(* C20: whatever the notifications the adapter's output arrives in, no     *)
(* reply is framed before the first '>' has arrived, the buffer holding    *)
(* all that has arrived; and the reply framed when it arrives is the text  *)
(* before it without the white space around it.                            *)
(***************************************************************************)
Arrived ==
  SubSeq(bench.stream, 1,
         Len(bench.stream)
           - (IF env.wire = << >> THEN 0 ELSE Len(env.wire[1].data)))

PromptArrived == \E j \in DOMAIN Arrived : Arrived[j] = ">"

FirstSlotSettled ==
  client.stats.successfulCommands + client.stats.failedCommands
    = client.stats.totalCommands

C20_ReplyFramedAtPrompt ==
  /\ ~PromptArrived =>
       /\ client.incomingData = Arrived
       /\ client.waitingForResponse
       /\ ~client.commandQueue[1].completed
       /\ client.commandQueue[1].rawResponse = << >>
  /\ (PromptArrived /\ ~FirstSlotSettled) =>
       /\ ~client.waitingForResponse
       /\ client.commandQueue[1].completed
       /\ client.commandQueue[1].rawResponse = bench.response

(* the adapter sent "\r410C1AF8\r>", all of it has arrived, and the slot   *)
(* holds 410C1AF8                                                          *)
C20_Witness ==
  /\ bench.stream = <<"\r">> \o GoodReply("010C") \o <<"\r", ">">>
  /\ env.wire = << >>
  /\ client.incomingData = << >>
  /\ client.commandQueue[1].completed
  /\ client.commandQueue[1].rawResponse = GoodReply("010C")

(***************************************************************************)
(* C21: after every call of processIncomingData the buffer holds no '>',   *)
(* and after a call whose fragment brought a '>' it is empty, the bytes    *)
(* behind the '>' included.                                                *)
(***************************************************************************)
HasPrompt(text) == \E j \in DOMAIN text : text[j] = ">"

FragmentArrives == Len(Arrived') > Len(Arrived)

Fragment == SubSeq(Arrived', Len(Arrived) + 1, Len(Arrived'))

C21_BufferClearedAtPrompt ==
  [][ FragmentArrives =>
        /\ ~HasPrompt(client.incomingData')
        /\ HasPrompt(Fragment) => client.incomingData' = << >>
        /\ ~HasPrompt(Fragment) =>
             client.incomingData' = client.incomingData \o Fragment
    ]_vars

(* the adapter sent "410C1AF8\r>OK>" and all of it has arrived, in one     *)
(* notification or several: nothing is left in the buffer                  *)
C21_Witness ==
  /\ bench.stream = GoodReply("010C") \o <<"\r", ">", "O", "K", ">">>
  /\ Arrived = bench.stream
  /\ client.incomingData = << >>

(***************************************************************************)
(* C22: a fragment that completes a reply while no command is in flight    *)
(* (waitingForResponse is false) changes nothing but the buffer, which it  *)
(* clears: the slots, the cursor, the flag, the telemetry and the          *)
(* statistics stay as they are.                                            *)
(***************************************************************************)
ReplyFramedIdle ==
  /\ FragmentArrives
  /\ HasPrompt(client.incomingData \o Fragment)
  /\ ~client.waitingForResponse

C22_IdleReplyDropped ==
  [][ ReplyFramedIdle =>
        /\ client' = [client EXCEPT !.incomingData = << >>]
        /\ loopTask' = loopTask
    ]_vars

(* "OK>" arrived behind the reply to 010C: that reply is still in its      *)
(* slot, waiting to be settled                                             *)
C22_Witness ==
  /\ bench.stream = GoodReply("010C") \o <<"\r", ">", "O", "K", ">">>
  /\ Arrived = bench.stream
  /\ client.incomingData = << >>
  /\ ~client.waitingForResponse
  /\ client.commandQueue[1].completed
  /\ client.commandQueue[1].rawResponse = GoodReply("010C")

(***************************************************************************)
(* C23: onResult accepts the reported device exactly when it advertises    *)
(* the service or else has the configured name; a device that is not       *)
(* accepted changes nothing; the accepted device becomes the target with   *)
(* the scan stopped, deviceFound and doConnect set; and the target is      *)
(* never replaced while a connect is pending (doConnect set).              *)
(***************************************************************************)
Matches(dev) ==
  \/ Devices[dev].service
  \/ ~Devices[dev].service /\ Devices[dev].name = client.deviceName

C23_FirstMatchBecomesTarget ==
  [][ /\ (bleTask.pc = "O551" /\ bleTask.pc' # "O551")
           => /\ bleTask.pc' = "O563" <=> Matches(bleTask.dev)
              /\ bleTask.pc' # "O563" =>
                   /\ bleTask.pc' = "none"
                   /\ client' = client
                   /\ env' = env
      /\ client.targetDevice' # client.targetDevice
           => /\ bleTask.pc = "O564"
              /\ client.targetDevice' = bleTask.dev
              /\ Matches(bleTask.dev)
              /\ ~env.scanActive
              /\ ~client.doConnect
      /\ (bleTask.pc = "O567" /\ bleTask.pc' = "none")
           => /\ client.targetDevice' = bleTask.dev
              /\ client.deviceFound'
              /\ client.doConnect'
              /\ ~client.doScan'
              /\ ~env.scanActive'
    ]_vars

(* the device found by its name is the target, the scan is stopped and     *)
(* the connect is pending                                                  *)
C23_Witness ==
  /\ client.targetDevice = "named"
  /\ client.deviceFound
  /\ client.doConnect
  /\ ~env.scanActive
  /\ bleTask.pc = "none"
  /\ loopTask.pc = "scan"

(***************************************************************************)
(* C24: automatic reconnection backs off: of two automatic reconnect       *)
(* attempts that follow each other with no successful connect in between,  *)
(* the later one was waited for longer than the earlier one.               *)
(***************************************************************************)
C24_ReconnectBacksOff ==
  Len(bench.waits) = 2 => bench.waits[2] > bench.waits[1]

(***************************************************************************)
(* C25: a step that leaves the connection state as it was leaves the time  *)
(* of the last state change as it was (its age grows by the time that      *)
(* passed, and the history of real changes is kept), the call of           *)
(* updateConnectionState with the current state included; a step that     *)
(* changes the state sets the time of the last state change to now.        *)
(***************************************************************************)
Durations ==
  {0, LoopDelay, ScanDuration} \cup {InitDelay[l] : l \in DOMAIN InitDelay}

StampCap ==
  IF client.connectionState \in {DISCONNECTED, ERROR_STATE}
  THEN MaxAge ELSE MaxLag(client)

C25_StampIsLastRealChange ==
  [][ IF client.connectionState' # client.connectionState
      THEN client.lastStateChange' = 0
      ELSE /\ client.previous' = client.previous
           /\ \E d \in Durations :
                /\ env.millis' = Older(env.millis, d, MaxLag(client))
                /\ client.lastStateChange' =
                     Older(client.lastStateChange, d, StampCap)
    ]_vars

(* onDisconnect has called updateConnectionState(DISCONNECTED), line 530,  *)
(* 50 ms after disconnect() set that state                                 *)
C25_Witness ==
  /\ bleTask.pc = "X532"
  /\ client.connectionState = DISCONNECTED
  /\ client.previous.state = CONNECTED
  /\ client.lastStateChange = LoopDelay

(***************************************************************************)
(* C26: on each successful connect the queue is reset first, then ATZ,     *)
(* ATE0, ATL0, ATS0 and ATSP0 are sent exactly once each in that order,    *)
(* and only then are the eight PID commands 010C, 010D, 0105, 015C, 012F,  *)
(* 0111, 0104, 0110 loaded in that order; the queue then holds exactly     *)
(* these eight slots, whatever the number of reconnects before.            *)
(* InitOrder is the loop task's way through initializeOBD and              *)
(* setupOBDCommands; a step of the loop task goes one or more places       *)
(* forward on it.  Sent is what a step transmits: the commands of the      *)
(* answers the adapter owes after the step and did not owe before.         *)
(***************************************************************************)
InitOrder ==
  <<"L184", "R364", "R365", "R366", "R367", "D190", "S191", "D192", "S193",
    "D194", "S195", "D196", "S197", "D198", "S199", "D200", "L203", "A210">>

SendLabels == <<"S191", "S193", "S195", "S197", "S199">>

ATOrder == <<"ATZ", "ATE0", "ATL0", "ATS0", "ATSP0">>

PidOrder == <<"010C", "010D", "0105", "015C", "012F", "0111", "0104", "0110">>

Pos(pc) ==
  IF \E k \in DOMAIN InitOrder : InitOrder[k] = pc
  THEN CHOOSE k \in DOMAIN InitOrder : InitOrder[k] = pc
  ELSE 0

(* the AT commands of the places i .. j-1 of InitOrder *)
RECURSIVE Due26(_, _)
Due26(i, j) ==
  IF i >= j THEN << >>
  ELSE (IF \E k \in DOMAIN SendLabels : SendLabels[k] = InitOrder[i]
        THEN <<ATOrder[CHOOSE k \in DOMAIN SendLabels :
                         SendLabels[k] = InitOrder[i]]>>
        ELSE << >>) \o Due26(i + 1, j)

Sent ==
  LET new == SelectSeq(env.wire', LAMBDA e : e.seq > env.txCount)
  IN  [k \in DOMAIN new |-> new[k].command]

IsPrefix(s, t) == Len(s) <= Len(t) /\ SubSeq(t, 1, Len(s)) = s

QueueCommands(q) == [k \in DOMAIN q |-> q[k].command]

LinkHolds == client.deviceConnected /\ env.link = "up"

(* strict: every AT command is sent, whatever became of the link *)
InitializationStep(strict) ==
  LET i == Pos(loopTask.pc)
      j == Pos(loopTask.pc')
      end == IF j = 0 THEN Len(InitOrder) + 1 ELSE j
      due == IF strict \/ LinkHolds THEN Due26(i, end) ELSE << >>
  IN  /\ IF i > 0 /\ loopTask.pc' # loopTask.pc
         THEN /\ j = 0 \/ j > i
              /\ IsPrefix(due, Sent)
              /\ j # 0 => Sent = due
              /\ \A k \in Len(due) + 1 .. Len(Sent) :
                   Sent[k] \in {PidOrder[n] : n \in DOMAIN PidOrder}
              /\ j = 0 => QueueCommands(client.commandQueue') = PidOrder
         ELSE \A k \in DOMAIN Sent :
                Sent[k] \in {PidOrder[n] : n \in DOMAIN PidOrder}
      /\ j \in Pos("R365") .. Pos("L203") => client.commandQueue' = << >>
      /\ loopTask.pc' = "A210" =>
           QueueCommands(client.commandQueue') =
             SubSeq(PidOrder, 1, loopTask.n' - 1)

ParsedSlot == parseFunction(CursorSlot.parseFunction, CursorSlot.rawResponse)

C27_TelemetryWrittenBySuccessOnly ==
  [][ IF CompletedSlotProcessed /\ ~FailedResponse(CursorSlot)
      THEN /\ client.obdData'[CursorSlot.targetVariable] = ParsedSlot.value
           /\ \A f \in TelemetryFields \ {CursorSlot.targetVariable} :
                client.obdData'[f] = client.obdData[f]
           /\ client.obdData.lastUpdate' = 0
           /\ client.stats.successfulCommands' =
                client.stats.successfulCommands + 1
           /\ client.stats.failedCommands' = client.stats.failedCommands
      ELSE /\ Telemetry' = Telemetry
           /\ \E d \in Durations :
                /\ env.millis' = Older(env.millis, d, MaxLag(client))
                /\ client.obdData.lastUpdate' =
                     Older(client.obdData.lastUpdate, d, MaxLag(client))
    ]_vars

(* the second slot's reply 410D50 has just been parsed, the first slot's   *)
(* value is kept and the third slot's field is still unset                 *)
C27_Witness ==
  /\ client.obdData.speed = Whole(80)
  /\ client.obdData.rpm # NoValue
  /\ client.obdData.coolantTemp = NoValue
  /\ client.obdData.lastUpdate = 0
  /\ client.stats.successfulCommands = 2
  /\ client.stats.failedCommands = 0
  /\ client.currentCommandIndex = 2

(***************************************************************************)
(* C28: PID commands are sent in queue order, cyclically: the slot a step  *)
(* sends is the first slot if none of the loaded queue was sent yet, and   *)
(* otherwise the slot after the one sent last, the first after the last;   *)
(* so no slot is skipped and none is sent twice in a row.  txSeq numbers   *)
(* a slot's latest transmission.                                           *)
(***************************************************************************)
LastSent(q) ==
  IF \A k \in DOMAIN q : q[k].txSeq = 0 THEN 0
  ELSE CHOOSE k \in DOMAIN q : \A m \in DOMAIN q : q[m].txSeq <= q[k].txSeq

SentNow(k) ==
  /\ k \in DOMAIN client.commandQueue'
  /\ env.txCount' > env.txCount
  /\ client.commandQueue'[k].txSeq = env.txCount'

C28_SentInQueueOrder ==
  [][ \A k \in DOMAIN OBDCommands :
        SentNow(k) =>
          k = (LastSent(client.commandQueue) % Len(client.commandQueue')) + 1
    ]_vars

(***************************************************************************)
(* C29: a step that settles a slot whose parser succeeds makes the         *)
(* average response time the new sample (the time since the slot was       *)
(* sent) if there is no average yet, and the integer half of old average   *)
(* plus sample otherwise; a step that settles a failed response or a       *)
(* slot that timed out, and every other step, leaves the average as it     *)
(* was.                                                                    *)
(***************************************************************************)
Sample == Older(Since(World, CursorSlot.sentTime), LoopDelay, MaxLag(client))

Averaged ==
  client.stats.averageResponseTime' =
    IF client.stats.averageResponseTime = 0 THEN Sample
    ELSE (client.stats.averageResponseTime + Sample) \div 2

AverageKept ==
  client.stats.averageResponseTime' = client.stats.averageResponseTime

C29_RollingAverage ==
  [][ IF CompletedSlotProcessed
      THEN /\ ~FailedResponse(CursorSlot) => Averaged
           /\ (FailedResponse(CursorSlot) \/ TimedOut(CursorSlot))
                => AverageKept
      ELSE AverageKept
    ]_vars

(***************************************************************************)
(* C30: no call of loop() waits for a scan to finish or for a fixed        *)
(* settle delay: inside loop() the loop task is never in the blocking      *)
(* scan of startScan nor in a delay() of initializeOBD.  (The scan that    *)
(* begin() starts returns to the first call of loop(), at line 55; the     *)
(* delay(50) that ends loop() paces the polls.)                            *)
(***************************************************************************)
ScanInsideLoop == loopTask.pc = "scan" /\ loopTask.ret # "L55"

SettleDelayInsideLoop == loopTask.pc \in DOMAIN InitDelay

C30_LoopNeverBlocks == ~ScanInsideLoop /\ ~SettleDelayInsideLoop

(***************************************************************************)
(* C31: with the notify callback interleaved with the statements of the    *)
(* loop task: whenever both tasks are between handlers, waitingForResponse *)
(* is true exactly when the slot at the cursor is sent and not completed;  *)
(* no step sends a slot that holds a completion not yet processed; and the *)
(* reply stored in a completed slot is the reply to that slot's latest     *)
(* transmission.                                                           *)
(***************************************************************************)
AtRest == loopTask.pc \in Waits /\ bleTask.pc = "none"

FlagMatchesCursor ==
  client.waitingForResponse <=>
    (InQueue(client, client.currentCommandIndex)
     /\ InFlight(client.currentCommandIndex))

OwnReplies ==
  \A k \in DOMAIN client.commandQueue :
    (client.commandQueue[k].completed /\ client.commandQueue[k].rxSeq # 0)
      => client.commandQueue[k].rxSeq = client.commandQueue[k].txSeq

C31_FlagTracksSlotInFlight ==
  [][ /\ AtRest' => FlagMatchesCursor'
      /\ \A k \in DOMAIN OBDCommands :
           (SentNow(k) /\ k \in DOMAIN client.commandQueue)
             => ~client.commandQueue[k].completed
      /\ OwnReplies'
    ]_vars

(***************************************************************************)
(* C32: in every state the connection state is Connected only if           *)
(* deviceConnected is true, also when the link is lost during connect or   *)
(* initialization.                                                         *)
(***************************************************************************)
C32_ConnectedOnlyWhileLinkUp ==
  client.connectionState = CONNECTED => client.deviceConnected

(***************************************************************************)
(* C33: the commands counted as successful and as failed are together at   *)
(* most the commands issued: every issued command adds at most one         *)
(* outcome to the statistics.                                              *)
(***************************************************************************)
C33_OutcomesWithinIssued ==
  client.stats.successfulCommands + client.stats.failedCommands
    <= client.stats.totalCommands

(***************************************************************************)
(* C34: with auto-reconnect enabled the client does not stay for ever      *)
(* without a connection and without scanning: whenever it is not           *)
(* connected, no scan is running and no connect attempt is pending (as     *)
(* after a scan that ended without a match), a scan is started later on.   *)
(***************************************************************************)
Searching == env.scanActive \/ client.doConnect \/ client.deviceConnected

Idle ==
  /\ client.autoReconnect
  /\ loopTask.pc # "new"
  /\ ~Searching

C34_ScansAgain == Idle ~> Searching

(***************************************************************************)
(* C35: a step writes a PID command to the transport only with             *)
(* deviceConnected true and the state Connected, and only from the queue   *)
(* loaded after the latest connect, that is after its initialization:      *)
(* after a loss of the link no PID command is written before a new         *)
(* connect and initialization are complete.                                *)
(***************************************************************************)
WrittenNow(k) == SentNow(k) /\ env.lastWrite' = env.txCount'

C35_PidWrittenOnlyWhenConnected ==
  [][ \A k \in DOMAIN OBDCommands :
        WrittenNow(k) =>
          /\ client.deviceConnected'
          /\ client.connectionState' = CONNECTED
          /\ client.commandQueue'[k].session = env.session'
          /\ Pos(loopTask.pc') = 0
    ]_vars

(* the first PID command of the second session is on its way to the        *)
(* adapter, after the link of the first session was lost                   *)
C35_Witness ==
  /\ env.session = 2
  /\ env.faults = 1
  /\ Linked
  /\ env.wire # << >>
  /\ env.wire[Len(env.wire)].command = "010C"
  /\ env.wire[Len(env.wire)].session = 2
  /\ env.wire[Len(env.wire)].seq = env.lastWrite

=============================================================================
